---- MODULE Spec2Model ----
(***************************************************************************)
(* Seppy: splitting one Python script into one unit per declaration.       *)
(* The model follows seppy/__main__.py (main), seppy/core.py (Seppy),      *)
(* seppy/analyzers.py and seppy/processors.py.                             *)
(*                                                                         *)
(* Text is a sequence of lines, a line is [ind, toks]: its indentation in  *)
(* columns and its tokens; a token is a sequence of characters (a keyword  *)
(* or punctuation mark is a one-element sequence holding the whole word).  *)
(* A syntax tree is the sequence of its declaration nodes in ast.walk      *)
(* (breadth-first) order, each node naming its enclosing node.             *)
(***************************************************************************)
EXTENDS Integers, Sequences, FiniteSets, TLC

VARIABLES
    fault,               \* the environment's failure in this run (or "none")
    file,                \* content of the source file: [tree, broken]
    config,              \* Seppy.config["IGNORE_PATTERNS"]
    hashseed,            \* the process's string-hash seed (set iteration order)
    pc,                  \* position of main / of the pipeline
    exit_code,           \* value returned by main (-1: still running)
    raised,              \* class of the exception caught by main ("" if none)
    tree,                \* local `tree` of parse_script (<<>> before parsing)
    modules,             \* Seppy.modules: lowercased name -> ModuleInfo
    dependencies_graph,  \* Seppy.dependencies_graph: name -> set of names
    stats,               \* Seppy.stats (ProcessingStats)
    disk,                \* files written under the output directory
    run,                 \* number of the pipeline run (1, 2, ...)
    prev_disk            \* files the previous invocation left behind

vars == <<fault, file, config, hashseed, pc, exit_code, raised, tree, modules,
          dependencies_graph, stats, disk, run, prev_disk>>

-----------------------------------------------------------------------------
(* Bounds of the model *)

MaxNodes == 2        \* declarations (at any depth) in the input script
MaxRuns == 2         \* process invocations on the same input

(* Program constants *)

IndentWidth == 4     \* the "    " the synthesizer prefixes to nested text

-----------------------------------------------------------------------------
(* Tokens, names and str operations *)

None == <<>>

Kw(s) == <<s>>

Keywords == {Kw("def"), Kw("async"), Kw("class"), Kw("import"), Kw("from"),
             Kw("as"), Kw("pass"), Kw("return"), Kw("global"), Kw("with")}

Punct == {Kw("("), Kw(")"), Kw(":"), Kw("."), Kw(","), Kw("@"), Kw("=")}

\* str.lower(), one character
LowerChar(c) ==
    CASE c = "A" -> "a"
      [] c = "T" -> "t"
      [] OTHER -> c

\* str.lower()
Lower(s) == [i \in 1..Len(s) |-> LowerChar(s[i])]

\* str.startswith(prefix)
StartsWith(s, prefix) ==
    /\ Len(prefix) <= Len(s)
    /\ \A i \in 1..Len(prefix) : s[i] = prefix[i]

RtChk == <<"runtime_checkable">>

DeclNames == {<<"a">>, <<"A">>, <<"T", "a">>}

CallNames == {<<"a">>, RtChk}

\* the base x and the attribute y of the attribute reads x.y of the inputs
AttrBases == {<<"A">>}

AttrName == <<"a">>

\* the targets x and the value v of the plain assignments x = v of the inputs
AssignTargets == {<<"t">>}

AssignValue == <<"a">>

\* the context expressions x of the blocks "with x:" of the inputs
WithItems == {<<"a">>}

ModNames == {<<"m">>}

IsIdent(tok) == tok /= None /\ tok \notin Keywords /\ tok \notin Punct

-----------------------------------------------------------------------------
(* Syntax trees.  Node i of tree t is t[i] = [name, kind, parent, body,     *)
(* deco, params]; parent = 0 for a declaration at script level, deco =     *)
(* None for an undecorated one.  The index order is the order in which     *)
(* ast.walk yields the declarations.                                       *)

Kinds == {"FunctionDef", "AsyncFunctionDef", "ClassDef"}

Bodies ==
    {[stmt |-> "pass", arg |-> None]}
    \cup {[stmt |-> "call", arg |-> c] : c \in CallNames}
    \cup {[stmt |-> "attr", arg |-> x] : x \in AttrBases}
    \cup {[stmt |-> "assign", arg |-> x] : x \in AssignTargets}
    \cup {[stmt |-> s, arg |-> x] : s \in {"with", "with_with"},
                                    x \in WithItems}
    \cup {[stmt |-> "import", arg |-> m] : m \in ModNames}

\* the names used as decorators (@m, @a)
DecoNames == {<<"m">>, <<"a">>}

\* the value of the parameter defaults of the inputs
DefaultValue == <<"m">>

\* the parameter lists of the inputs, a parameter being [name, default]:
\* (ab, a=m) and (a, ab=m)
ParamLists ==
    {<<[name |-> <<"a", "b">>, default |-> None],
       [name |-> <<"a">>, default |-> DefaultValue]>>,
     <<[name |-> <<"a">>, default |-> None],
       [name |-> <<"a", "b">>, default |-> DefaultValue]>>}

\* what sets one declaration of a script apart: its body statement, or a
\* decorator above its header, or the parameters of a function
Features ==
    {[body |-> b, deco |-> None, params |-> <<>>] : b \in Bodies}
    \cup {[body |-> [stmt |-> "pass", arg |-> None], deco |-> x,
           params |-> <<>>] : x \in DecoNames}
    \cup {[body |-> [stmt |-> "pass", arg |-> None], deco |-> None,
           params |-> ps] : ps \in ParamLists}

\* a declaration as written: its name and kind
Decls == [name : DeclNames, kind : Kinds]

\* parent vectors of the trees with n nodes, numbered breadth-first
Shapes(n) ==
    {p \in [1..n -> 0..(n - 1)] :
        \A i \in 1..n : /\ p[i] < i
                        /\ (i > 1 => p[i - 1] <= p[i])}

\* the tree of n declarations d nested as p says, node `at` having the
\* feature f and every other node the body `pass`, no decorator and no
\* parameter (a class has no parameter list)
MkTree(n, d, p, at, f) ==
    [i \in 1..n |-> [name |-> d[i].name, kind |-> d[i].kind, parent |-> p[i],
                     body |-> IF i = at THEN f.body
                              ELSE [stmt |-> "pass", arg |-> None],
                     deco |-> IF i = at THEN f.deco ELSE None,
                     params |-> IF i = at /\ d[i].kind /= "ClassDef"
                                THEN f.params ELSE <<>>]]

Indices(t) == [i \in 1..Len(t) |-> i]

\* the declarations directly in the body of node i (i = 0: of the script)
Children(t, i) == SelectSeq(Indices(t), LAMBDA j : t[j].parent = i)

RECURSIVE InSubtree(_, _, _)
\* node j is node i or lies inside it: j is among ast.walk(i)
InSubtree(t, i, j) ==
    \/ j = i
    \/ t[j].parent /= 0 /\ InSubtree(t, i, t[j].parent)

\* the nodes ast.walk(node i) yields, as a sequence in walk order
Walk(t, i) == SelectSeq(Indices(t), LAMBDA j : InSubtree(t, i, j))

TopLevel(t) == {i \in 1..Len(t) : t[i].parent = 0}

RECURSIVE Preorder(_, _)
\* the nodes below the given siblings in source (depth-first) order
Preorder(t, js) ==
    IF js = <<>> THEN <<>>
    ELSE <<Head(js)>> \o Preorder(t, Children(t, Head(js)))
                      \o Preorder(t, Tail(js))

PosIn(s, x) == CHOOSE k \in 1..Len(s) : s[k] = x

-----------------------------------------------------------------------------
(* Source text of a tree *)

Line(ind, toks) == [ind |-> ind, toks |-> toks]

BlankLine == Line(0, <<>>)

RECURSIVE ParamToks(_)
\* "x, y=v": the parameters between the parentheses of a header
ParamToks(ps) ==
    IF ps = <<>> THEN <<>>
    ELSE <<Head(ps).name>>
         \o (IF Head(ps).default = None THEN <<>>
             ELSE <<Kw("="), Head(ps).default>>)
         \o (IF Tail(ps) = <<>> THEN <<>> ELSE <<Kw(",")>>)
         \o ParamToks(Tail(ps))

HeaderToks(n) ==
    CASE n.kind = "FunctionDef" ->
            <<Kw("def"), n.name, Kw("(")>> \o ParamToks(n.params)
            \o <<Kw(")"), Kw(":")>>
      [] n.kind = "AsyncFunctionDef" ->
            <<Kw("async"), Kw("def"), n.name, Kw("(")>>
            \o ParamToks(n.params) \o <<Kw(")"), Kw(":")>>
      [] n.kind = "ClassDef" ->
            <<Kw("class"), n.name, Kw(":")>>

BodyToks(b) ==
    CASE b.stmt = "pass" -> <<Kw("pass")>>
      [] b.stmt = "call" -> <<b.arg, Kw("("), Kw(")")>>
      [] b.stmt = "attr" -> <<b.arg, Kw("."), AttrName>>
      [] b.stmt = "assign" -> <<b.arg, Kw("="), AssignValue>>
      [] b.stmt = "import" -> <<Kw("import"), b.arg>>

\* the given lines moved d columns to the right
Indented(lines, d) ==
    [k \in 1..Len(lines) |-> Line(lines[k].ind + d, lines[k].toks)]

RECURSIVE WithText(_, _)
\* "with x:" nested `depth` deep around `pass`, as written in the source and
\* as ast.unparse prints it (depth 0: the statement `pass` itself)
WithText(x, depth) ==
    IF depth = 0 THEN <<Line(0, <<Kw("pass")>>)>>
    ELSE <<Line(0, <<Kw("with"), x, Kw(":")>>)>>
         \o Indented(WithText(x, depth - 1), IndentWidth)

\* the number of with blocks a body statement nests
WithDepth(b) ==
    CASE b.stmt = "with" -> 1
      [] b.stmt = "with_with" -> 2
      [] OTHER -> 0

\* the lines of a body statement, the statement starting in column 0
BodyLines(b) ==
    IF WithDepth(b) > 0 THEN WithText(b.arg, WithDepth(b))
    ELSE <<Line(0, BodyToks(b))>>

RECURSIVE Render(_, _, _)
\* the text of the given sibling declarations at indentation ind
Render(t, js, ind) ==
    IF js = <<>> THEN <<>>
    ELSE (IF t[Head(js)].deco = None THEN <<>>
          ELSE <<Line(ind, <<Kw("@"), t[Head(js)].deco>>)>>)
         \o <<Line(ind, HeaderToks(t[Head(js)]))>>
         \o Indented(BodyLines(t[Head(js)].body), ind + IndentWidth)
         \o Render(t, Children(t, Head(js)), ind + IndentWidth)
         \o Render(t, Tail(js), ind)

\* a line no grammar rule accepts: "def ( :"
BrokenLine == Line(0, <<Kw("def"), Kw("("), Kw(":")>>)

\* the content of the source file
FileText(f) ==
    Render(f.tree, Children(f.tree, 0), 0)
    \o (IF f.broken THEN <<BrokenLine>> ELSE <<>>)

\* node.lineno and node.end_lineno (1-based) of node i
RECURSIVE NLines(_, _)
\* the number of lines the given nodes occupy by themselves: a header, the
\* lines of the body statement and, if decorated, a decorator line each
NLines(t, js) ==
    IF js = <<>> THEN 0
    ELSE (IF t[Head(js)].deco = None THEN 0 ELSE 1) + 1
         + Len(BodyLines(t[Head(js)].body)) + NLines(t, Tail(js))

\* node.lineno is the line of the header, below the decorators
LineNo(t, i) ==
    LET order == Preorder(t, Children(t, 0))
    IN  NLines(t, SubSeq(order, 1, PosIn(order, i)))
        - Len(BodyLines(t[i].body))

EndLineNo(t, i) ==
    LineNo(t, i) + Len(BodyLines(t[i].body))
    + NLines(t, SelectSeq(Walk(t, i), LAMBDA j : j /= i))

-----------------------------------------------------------------------------
(* The grammar: what ast.parse accepts.  The same predicate judges the      *)
(* original script and every synthesized unit.                             *)

IsHeader(toks) == toks /= <<>> /\ toks[Len(toks)] = Kw(":")

RECURSIVE ParamsOK(_, _)
\* a non-empty parameter list: names, with or without a default, separated
\* by commas; a parameter without default may not follow one with a default
ParamsOK(toks, seenDefault) ==
    /\ toks /= <<>>
    /\ IsIdent(toks[1])
    /\ IF Len(toks) >= 3 /\ toks[2] = Kw("=")
       THEN /\ IsIdent(toks[3])
            /\ \/ Len(toks) = 3
               \/ /\ Len(toks) > 4
                  /\ toks[4] = Kw(",")
                  /\ ParamsOK(SubSeq(toks, 5, Len(toks)), TRUE)
       ELSE /\ ~seenDefault
            /\ \/ Len(toks) = 1
               \/ /\ Len(toks) > 2
                  /\ toks[2] = Kw(",")
                  /\ ParamsOK(SubSeq(toks, 3, Len(toks)), FALSE)

\* "def name(parameters):"
IsDefHeader(toks) ==
    /\ Len(toks) >= 5
    /\ toks[1] = Kw("def")
    /\ IsIdent(toks[2])
    /\ toks[3] = Kw("(")
    /\ SubSeq(toks, Len(toks) - 1, Len(toks)) = <<Kw(")"), Kw(":")>>
    /\ Len(toks) = 5 \/ ParamsOK(SubSeq(toks, 4, Len(toks) - 2), FALSE)

\* "@name"
IsDecorator(toks) == Len(toks) = 2 /\ toks[1] = Kw("@") /\ IsIdent(toks[2])

StmtOK(toks) ==
    \/ toks = <<Kw("pass")>>
    \/ Len(toks) = 3 /\ IsIdent(toks[1])
                     /\ toks[2] = Kw("(") /\ toks[3] = Kw(")")
    \/ Len(toks) = 3 /\ IsIdent(toks[1])
                     /\ toks[2] = Kw(".") /\ IsIdent(toks[3])
    \/ Len(toks) = 3 /\ IsIdent(toks[1])
                     /\ toks[2] = Kw("=") /\ IsIdent(toks[3])
    \/ Len(toks) = 2 /\ toks[1] = Kw("import") /\ IsIdent(toks[2])
    \/ Len(toks) = 4 /\ toks[1] = Kw("import") /\ IsIdent(toks[2])
                     /\ toks[3] = Kw("as") /\ IsIdent(toks[4])
    \/ Len(toks) = 4 /\ toks[1] = Kw("from") /\ IsIdent(toks[2])
                     /\ toks[3] = Kw("import") /\ IsIdent(toks[4])
    \/ IsDefHeader(toks)
    \/ Len(toks) > 1 /\ toks[1] = Kw("async") /\ IsDefHeader(Tail(toks))
    \/ Len(toks) = 3 /\ toks[1] = Kw("class") /\ IsIdent(toks[2])
                     /\ toks[3] = Kw(":")
    \/ IsDecorator(toks)
    \/ Len(toks) = 3 /\ toks[1] = Kw("with") /\ IsIdent(toks[2])
                     /\ toks[3] = Kw(":")

\* a decorator is followed, blank lines aside, by a further decorator or by
\* the header of a function or class in the same column
DecoratorsOK(lines) ==
    \A k \in 1..Len(lines) :
        IsDecorator(lines[k].toks)
        => \E j \in (k + 1)..Len(lines) :
               /\ \A h \in (k + 1)..(j - 1) : lines[h].toks = <<>>
               /\ lines[j].toks /= <<>>
               /\ lines[j].ind = lines[k].ind
               /\ Head(lines[j].toks) \in {Kw("@"), Kw("def"), Kw("async"),
                                           Kw("class")}

RECURSIVE PopTo(_, _)
\* the indentation stack after a dedent to column ind (<<>>: no such level)
PopTo(stack, ind) ==
    IF stack = <<>> THEN <<>>
    ELSE IF stack[Len(stack)] = ind THEN stack
    ELSE IF stack[Len(stack)] < ind THEN <<>>
    ELSE PopTo(SubSeq(stack, 1, Len(stack) - 1), ind)

RECURSIVE BlocksOK(_, _, _, _)
\* the tokenizer's INDENT/DEDENT discipline from line k on; blank lines are
\* skipped, a header must be followed by a deeper line, nothing else may be
BlocksOK(lines, k, stack, expectBlock) ==
    IF k > Len(lines) THEN ~expectBlock
    ELSE IF lines[k].toks = <<>>
         THEN BlocksOK(lines, k + 1, stack, expectBlock)
    ELSE LET ind == lines[k].ind
             top == stack[Len(stack)]
             hdr == IsHeader(lines[k].toks)
         IN  IF expectBlock
             THEN ind > top /\ BlocksOK(lines, k + 1, Append(stack, ind), hdr)
             ELSE /\ ind <= top
                  /\ PopTo(stack, ind) /= <<>>
                  /\ BlocksOK(lines, k + 1, PopTo(stack, ind), hdr)

\* ast.parse(text) returns a tree (TRUE) or raises SyntaxError (FALSE)
ParsesOK(lines) ==
    /\ \A k \in 1..Len(lines) : lines[k].toks = <<>> \/ StmtOK(lines[k].toks)
    /\ DecoratorsOK(lines)
    /\ BlocksOK(lines, 1, <<0>>, FALSE)

-----------------------------------------------------------------------------
(* analyzers.py *)

\* get_parent_function_or_class(node, tree): the name of the first
\* FunctionDef or ClassDef of ast.walk(tree) whose own walk yields the node
get_parent_function_or_class(t, j) ==
    LET cands == SelectSeq(Indices(t),
                     LAMBDA i : /\ t[i].kind \in {"FunctionDef", "ClassDef"}
                                /\ InSubtree(t, i, j))
    IN  IF cands = <<>> THEN None ELSE t[Head(cands)].name

\* the Name callees of the Call nodes ast.walk(node i) yields
Calls(t, i) ==
    {t[j].body.arg : j \in {k \in 1..Len(t) : /\ InSubtree(t, i, k)
                                              /\ t[k].body.stmt = "call"}}

\* analyze_complex_structures raises AttributeError (it reads n.parent of a
\* Call node) when the subtree calls Protocol or runtime_checkable by name
AnalyzeRaises(t, i) == Calls(t, i) \cap {<<"Protocol">>, RtChk} /= {}

\* structures['imports']: one "import m" string per Import in the subtree
StructImports(t, i) ==
    {<<Kw("import"), t[j].body.arg>> :
        j \in {k \in 1..Len(t) : /\ InSubtree(t, i, k)
                                 /\ t[k].body.stmt = "import"}}

\* structures['assignments']: one {'target', 'value'} entry per Assign of the
\* subtree whose target is a Name that is not all upper case, in walk order
StructAssignments(t, i) ==
    LET at == SelectSeq(Walk(t, i), LAMBDA j : t[j].body.stmt = "assign")
    IN  [k \in 1..Len(at) |->
            [target |-> t[at[k]].body.arg, value |-> AssignValue]]

RECURSIVE WithEntries(_, _)
\* the entries a statement nesting `depth` with blocks adds to
\* structures['with_blocks']: ast.walk yields the outer With before the
\* inner one; 'items' are the unparsed items, 'body' holds the unparsed
\* text of each statement of the block
WithEntries(x, depth) ==
    IF depth = 0 THEN <<>>
    ELSE <<[items |-> <<x>>, body |-> <<WithText(x, depth - 1)>>]>>
         \o WithEntries(x, depth - 1)

RECURSIVE WithBlocksOf(_, _)
WithBlocksOf(t, js) ==
    IF js = <<>> THEN <<>>
    ELSE WithEntries(t[Head(js)].body.arg, WithDepth(t[Head(js)].body))
         \o WithBlocksOf(t, Tail(js))

\* structures['with_blocks']: one entry per With node of ast.walk(node i),
\* the nodes inside nested declarations included
StructWithBlocks(t, i) == WithBlocksOf(t, Walk(t, i))

\* the index of the first element of args that starts with arg_name (0 if
\* none does)
FirstStartingWith(args, arg_name) ==
    IF \E k \in 1..Len(args) : StartsWith(args[k], arg_name)
    THEN CHOOSE k \in 1..Len(args) :
             /\ StartsWith(args[k], arg_name)
             /\ \A h \in 1..(k - 1) : ~StartsWith(args[h], arg_name)
    ELSE 0

RECURSIVE AttachDefaults(_, _)
\* the loop over args_with_defaults (given last parameter first): the
\* default is appended to the first element of args that starts with the
\* parameter's name
AttachDefaults(args, with_defaults) ==
    IF with_defaults = <<>> THEN args
    ELSE LET p == Head(with_defaults)
             k == FirstStartingWith(args, p.name)
         IN  AttachDefaults(
                 IF k = 0 THEN args
                 ELSE [args EXCEPT ![k] = @ \o <<"=">> \o p.default],
                 Tail(with_defaults))

\* func_info['args'] of a function with parameters ps: the names, then the
\* defaults re-attached, the parameters with a default taken in reverse
FuncArgs(ps) ==
    LET args == [k \in 1..Len(ps) |-> ps[k].name]
        having == SelectSeq(ps, LAMBDA p : p.default /= None)
        reversed == [k \in 1..Len(having) |-> having[Len(having) + 1 - k]]
    IN  AttachDefaults(args, reversed)

RECURSIVE DictPut(_, _, _)
\* insertion into a dict kept as a sequence of [key, val]: a key already
\* present keeps its place and takes the new value
DictPut(d, key, val) ==
    IF d = <<>> THEN <<[key |-> key, val |-> val]>>
    ELSE IF Head(d).key = key THEN <<[key |-> key, val |-> val]>> \o Tail(d)
    ELSE <<Head(d)>> \o DictPut(Tail(d), key, val)

RECURSIVE DictFromSeq(_, _, _)
DictFromSeq(t, js, d) ==
    IF js = <<>> THEN d
    ELSE DictFromSeq(t, Tail(js), DictPut(d, t[Head(js)].name, Head(js)))

\* structures['nested_classes'] of the analysis rooted at node i: for every
\* ClassDef n of the walk, every ClassDef directly in n.body, keyed by name;
\* the value is the node whose analysis the entry holds
StructNestedClasses(t, i) ==
    DictFromSeq(t,
        SelectSeq(Walk(t, i),
            LAMBDA j : /\ j /= i
                       /\ t[j].kind = "ClassDef"
                       /\ t[t[j].parent].kind = "ClassDef"),
        <<>>)

-----------------------------------------------------------------------------
(* processors.py *)

\* the characters of the model in code-point order; a keyword sorts by its
\* first letter
Alphabet == <<" ", ".", "A", "T", "a", "from", "import", "m", "t">>

RECURSIVE Flatten(_)
\* the characters of a string given as tokens (one space between tokens)
Flatten(toks) ==
    IF toks = <<>> THEN <<>>
    ELSE IF Len(toks) = 1 THEN Head(toks)
    ELSE Head(toks) \o <<" ">> \o Flatten(Tail(toks))

RECURSIVE StrLess(_, _)
\* x < y on str
StrLess(x, y) ==
    IF y = <<>> THEN FALSE
    ELSE IF x = <<>> THEN TRUE
    ELSE IF Head(x) = Head(y) THEN StrLess(Tail(x), Tail(y))
    ELSE PosIn(Alphabet, Head(x)) < PosIn(Alphabet, Head(y))

RECURSIVE sorted(_)
\* sorted(S) for a set of strings
sorted(S) ==
    IF S = {} THEN <<>>
    ELSE LET least == CHOOSE x \in S :
                          \A y \in S \ {x} : StrLess(Flatten(x), Flatten(y))
         IN  <<least>> \o sorted(S \ {least})

HasDot(imp) == \E k \in 1..Len(imp) : imp[k] = Kw(".")

FirstDot(imp) == CHOOSE k \in 1..Len(imp) :
                     imp[k] = Kw(".") /\ \A h \in 1..(k - 1) : imp[h] /= Kw(".")

\* organize_imports(imports): every entry without a dot becomes
\* "import <entry>", every entry with a dot "from <head> import <rest>"; each
\* group ends with a newline, so a blank line follows it once the parts are
\* joined.  (The "local" group needs an entry starting with "_"; the entries
\* analyze_complex_structures makes start with "import" or "from".)
organize_imports(imports) ==
    LET stdlib == SelectSeq(sorted(imports), LAMBDA imp : ~HasDot(imp))
        third == SelectSeq(sorted(imports), LAMBDA imp : HasDot(imp))
        stdLines == [k \in 1..Len(stdlib) |->
                        Line(0, <<Kw("import")>> \o stdlib[k])]
        thirdLines ==
            [k \in 1..Len(third) |->
                Line(0, <<Kw("from")>>
                        \o SubSeq(third[k], 1, FirstDot(third[k]) - 1)
                        \o <<Kw("import")>>
                        \o SubSeq(third[k], FirstDot(third[k]) + 1,
                                  Len(third[k])))]
    IN  (IF stdlib /= <<>> THEN stdLines ELSE <<>>)
        \o (IF third /= <<>>
            THEN (IF stdlib /= <<>> THEN <<BlankLine>> ELSE <<>>) \o thirdLines
            ELSE <<>>)
        \o <<BlankLine>>

\* the characters of a token: a keyword or a mark is kept as one element
\* everywhere else and is spelled out here
Spell(tok) ==
    CASE tok = Kw("def") -> <<"d", "e", "f">>
      [] tok = Kw("async") -> <<"a", "s", "y", "n", "c">>
      [] tok = Kw("class") -> <<"c", "l", "a", "s", "s">>
      [] tok = Kw("import") -> <<"i", "m", "p", "o", "r", "t">>
      [] tok = Kw("from") -> <<"f", "r", "o", "m">>
      [] tok = Kw("as") -> <<"a", "s">>
      [] tok = Kw("pass") -> <<"p", "a", "s", "s">>
      [] tok = Kw("return") -> <<"r", "e", "t", "u", "r", "n">>
      [] tok = Kw("global") -> <<"g", "l", "o", "b", "a", "l">>
      [] tok = Kw("with") -> <<"w", "i", "t", "h">>
      [] tok = RtChk -> <<"r", "u", "n", "t", "i", "m", "e", "_", "c", "h",
                          "e", "c", "k", "a", "b", "l", "e">>
      [] OTHER -> tok

RECURSIVE SpellToks(_)
\* the characters of a line's tokens, a space between two tokens (where
\* the spaces of a line are does not matter to the search for a name)
SpellToks(toks) ==
    IF toks = <<>> THEN <<>>
    ELSE Spell(Head(toks)) \o <<" ">> \o SpellToks(Tail(toks))

RECURSIVE Chars(_)
\* the characters of a text, "\n" between its lines
Chars(text) ==
    IF text = <<>> THEN <<>>
    ELSE SpellToks(Head(text).toks) \o <<"\n">> \o Chars(Tail(text))

\* `needle in hay` for two str
IsSubstring(needle, hay) ==
    \E k \in 0..(Len(hay) - Len(needle)) :
        \A h \in 1..Len(needle) : hay[k + h] = needle[h]

\* the 'decorators' entry create_complex_module looks up for `node` in the
\* analysis rooted at `root`: structures['classes'], ['functions'] or
\* ['async_functions'] is keyed by name, so the entry is that of the last
\* declaration of the walk with the node's name and the node's kind
StructDecorators(t, root, node) ==
    LET same == SelectSeq(Walk(t, root),
                    LAMBDA j : /\ t[j].name = t[node].name
                               /\ t[j].kind = t[node].kind)
    IN  IF same = <<>> THEN <<>>
        ELSE IF t[same[Len(same)]].deco = None THEN <<>>
        ELSE <<t[same[Len(same)]].deco>>

\* the "@d" lines create_complex_module puts ahead of the source segment:
\* all recorded decorators, unless one of them occurs in the segment
DecoratorLines(decorators, source_lines) ==
    IF /\ decorators /= <<>>
       /\ ~\E k \in 1..Len(decorators) :
               IsSubstring(decorators[k], Chars(source_lines))
    THEN [k \in 1..Len(decorators) |-> Line(0, <<Kw("@"), decorators[k]>>)]
    ELSE <<>>

\* ast.get_source_segment(source, node) raises IndexError when the source
\* has fewer lines than node.end_lineno
SegmentRaises(source, t, i) == EndLineNo(t, i) > Len(source)

\* ast.get_source_segment(source, node): the node's lines, the first one cut
\* at col_offset, the following ones whole
get_source_segment(source, t, i) ==
    LET seg == SubSeq(source, LineNo(t, i), EndLineNo(t, i))
    IN  [k \in 1..Len(seg) |->
            IF k = 1 THEN Line(0, seg[k].toks) ELSE seg[k]]

\* "\n".join("    " + line for line in text.split("\n"))
IndentText(text) ==
    [k \in 1..Len(text) |-> Line(text[k].ind + IndentWidth, text[k].toks)]

\* f"    {body_line}" for a body_line of several lines: the prefix goes
\* in front of the string, that is of its first line only
PrefixFirst(body_line) ==
    [k \in 1..Len(body_line) |->
        IF k = 1 THEN Line(body_line[k].ind + IndentWidth, body_line[k].toks)
        ELSE body_line[k]]

RECURSIVE PrefixEach(_)
PrefixEach(body) ==
    IF body = <<>> THEN <<>>
    ELSE PrefixFirst(Head(body)) \o PrefixEach(Tail(body))

RECURSIVE WithLines(_)
\* the lines create_complex_module appends for structures['with_blocks']
WithLines(with_blocks) ==
    IF with_blocks = <<>> THEN <<>>
    ELSE <<Line(0, <<Kw("with")>> \o Head(with_blocks).items \o <<Kw(":")>>)>>
         \o PrefixEach(Head(with_blocks).body)
         \o WithLines(Tail(with_blocks))

RECURSIVE create_complex_module(_, _, _, _)
RECURSIVE NestedParts(_, _, _, _)

\* the parts appended for structures['nested_classes'] (processors.py
\* 443-446): each nested structure is synthesized with the OUTER node
NestedParts(source, t, node, entries) ==
    IF entries = <<>> THEN [raised |-> FALSE, text |-> <<>>]
    ELSE LET first == create_complex_module(source, t, node, Head(entries).val)
             rest == NestedParts(source, t, node, Tail(entries))
         IN  IF first.raised \/ rest.raised
             THEN [raised |-> TRUE, text |-> <<>>]
             ELSE [raised |-> FALSE,
                   text |-> <<BlankLine>> \o IndentText(first.text)
                            \o rest.text]

\* create_complex_module(name, node, structures), structures being the
\* analysis rooted at node `root`: the organized imports, then one line
\* "target = value" per recorded assignment, then the decorators the
\* segment lacks, then the source segment of `node`, then the nested-class
\* parts, then the recorded with blocks.  (The reconstruction
\* branch, processors.py 447-617, needs an empty segment; a segment of
\* this model's text has a header line.)
create_complex_module(source, t, node, root) ==
    LET imports == StructImports(t, root)
        assignments == StructAssignments(t, root)
        head == (IF imports /= {} THEN organize_imports(imports) ELSE <<>>)
                \o [k \in 1..Len(assignments) |->
                       Line(0, <<assignments[k].target, Kw("="),
                                 assignments[k].value>>)]
        nested == IF t[node].kind = "ClassDef"
                  THEN NestedParts(source, t, node,
                                   StructNestedClasses(t, root))
                  ELSE [raised |-> FALSE, text |-> <<>>]
    IN  IF SegmentRaises(source, t, node) \/ nested.raised
        THEN [raised |-> TRUE, text |-> <<>>]
        ELSE [raised |-> FALSE,
              text |-> LET source_lines ==
                               get_source_segment(source, t, node)
                       IN  head
                           \o DecoratorLines(StructDecorators(t, root, node),
                                             source_lines)
                           \o source_lines \o nested.text
                           \o WithLines(StructWithBlocks(t, root))]


\* a create_module_docs without the outer try/except: the SyntaxError of
\* ast.parse(code) leaves the function
create_module_docs_Unguarded(module_name, code) ==
    IF ParsesOK(code)
    THEN [raised |-> FALSE, title |-> module_name, error |-> FALSE,
          pointer |-> FALSE,
          sections |-> SelectSeq(code, LAMBDA ln : IsHeader(ln.toks))]
    ELSE [raised |-> TRUE, title |-> None, error |-> FALSE,
          pointer |-> FALSE, sections |-> <<>>]

\* create_module_docs(module_name, code): the full document lists the
\* declarations found in the code; code that does not parse (ast.parse
\* raises inside the try) yields the document of the except clause: the
\* "# Module" title, the "## Error" section and the line "Please check the
\* source code directly for more information."  No path raises.
create_module_docs(module_name, code) ==
    IF ParsesOK(code)
    THEN [raised |-> FALSE, title |-> module_name, error |-> FALSE,
          pointer |-> FALSE,
          sections |-> SelectSeq(code, LAMBDA ln : IsHeader(ln.toks))]
    ELSE [raised |-> FALSE, title |-> module_name, error |-> TRUE,
          pointer |-> TRUE, sections |-> <<>>]

-----------------------------------------------------------------------------
(* core.py *)

EmptyMap == [x \in {} |-> x]

\* d[k].add(v) on a defaultdict(set)
AddEdge(g, k, v) ==
    IF k \in DOMAIN g THEN [g EXCEPT ![k] = @ \cup {v}]
    ELSE [x \in DOMAIN g \cup {k} |-> IF x = k THEN {v} ELSE g[x]]

RECURSIVE AddEdges(_, _, _)
AddEdges(g, k, vs) ==
    IF vs = {} THEN g
    ELSE LET v == CHOOSE x \in vs : TRUE
         IN  AddEdges(AddEdge(g, k, v), k, vs \ {v})

\* the loop body with the call edges drawn from the callee to the caller
AnalyzeNode_CalleeToCaller(t, i, g) ==
    LET parent == get_parent_function_or_class(t, i)
        g1 == IF parent /= None THEN AddEdge(g, parent, t[i].name) ELSE g
        callees == Calls(t, i)
    IN  IF callees = {} THEN g1
        ELSE AddEdge(g1, CHOOSE c \in callees : TRUE, t[i].name)

\* one iteration of the loop of _analyze_dependencies, for node i
AnalyzeNode(t, i, g) ==
    LET parent == get_parent_function_or_class(t, i)
        g1 == IF parent /= None THEN AddEdge(g, parent, t[i].name) ELSE g
    IN  AddEdges(g1, t[i].name, Calls(t, i))

RECURSIVE _analyze_dependencies(_, _, _)
\* _analyze_dependencies(tree) from node i on, starting from graph g
_analyze_dependencies(t, i, g) ==
    IF i > Len(t) THEN g
    ELSE _analyze_dependencies(t, i + 1, AnalyzeNode(t, i, g))

\* any(name.startswith(prefix) for prefix in IGNORE_PATTERNS)
Ignored(name, patterns) ==
    \E k \in 1..Len(patterns) : StartsWith(name, patterns[k])

NamesOfKind(t, i, kinds) ==
    {t[j].name : j \in {k \in 1..Len(t) : /\ InSubtree(t, i, k)
                                          /\ t[k].kind \in kinds}}

\* the ModuleInfo _split_into_modules builds for node i
ModuleInfo(t, i, code) ==
    [name |-> Lower(t[i].name),
     code |-> code,
     imports |-> StructImports(t, i),
     functions |-> IF t[i].kind = "ClassDef"
                   THEN NamesOfKind(t, i, {"FunctionDef"})
                   ELSE {t[i].name},
     classes |-> IF t[i].kind = "ClassDef"
                 THEN NamesOfKind(t, i, {"ClassDef"})
                 ELSE {},
     async_functions |-> IF t[i].kind = "AsyncFunctionDef"
                         THEN {t[i].name} ELSE {}]

\* a visiting order with the functions ahead of the classes
SplitOrder_FunctionsFirst(t) ==
    SelectSeq(Indices(t), LAMBDA i : t[i].kind = "FunctionDef")
    \o SelectSeq(Indices(t), LAMBDA i : t[i].kind = "AsyncFunctionDef")
    \o SelectSeq(Indices(t), LAMBDA i : t[i].kind = "ClassDef")

\* the order in which _split_into_modules visits the declarations: the
\* classes, then functions + async_functions, each list in ast.walk order
SplitOrder(t) ==
    SelectSeq(Indices(t), LAMBDA i : t[i].kind = "ClassDef")
    \o SelectSeq(Indices(t), LAMBDA i : t[i].kind = "FunctionDef")
    \o SelectSeq(Indices(t), LAMBDA i : t[i].kind = "AsyncFunctionDef")

\* the loop body with the prefix test made on the name as written
SplitOne_CaseSensitive(source, t, patterns, i, acc) ==
    LET name == Lower(t[i].name)
        made == create_complex_module(source, t, i, i)
    IN  IF acc.raised \/ Ignored(t[i].name, patterns) THEN acc
        ELSE IF AnalyzeRaises(t, i) \/ made.raised
        THEN [raised |-> TRUE, mods |-> acc.mods]
        ELSE [raised |-> FALSE,
              mods |-> [x \in DOMAIN acc.mods \cup {name} |->
                           IF x = name THEN ModuleInfo(t, i, made.text)
                           ELSE acc.mods[x]]]

\* one iteration of a loop of _split_into_modules; no exception is caught
SplitOne(source, t, patterns, i, acc) ==
    LET name == Lower(t[i].name)
        made == create_complex_module(source, t, i, i)
    IN  IF acc.raised \/ Ignored(name, patterns) THEN acc
        ELSE IF AnalyzeRaises(t, i) \/ made.raised
        THEN [raised |-> TRUE, mods |-> acc.mods]
        ELSE [raised |-> FALSE,
              mods |-> [x \in DOMAIN acc.mods \cup {name} |->
                           IF x = name THEN ModuleInfo(t, i, made.text)
                           ELSE acc.mods[x]]]

RECURSIVE SplitLoop(_, _, _, _, _)
SplitLoop(source, t, patterns, order, acc) ==
    IF order = <<>> THEN acc
    ELSE SplitLoop(source, t, patterns, Tail(order),
                   SplitOne(source, t, patterns, Head(order), acc))

\* _split_into_modules(tree, ...): the local dict `modules`, or the
\* exception that left the method
_split_into_modules(source, t, patterns) ==
    SplitLoop(source, t, patterns, SplitOrder(t),
              [raised |-> FALSE, mods |-> EmptyMap])


\* iteration order of a set of str in a process whose hash seed is `seed`:
\* by hash value, the hash being a seed-dependent scrambling of the string
NameUniverse == <<<<"A">>, <<"T", "a">>, <<"a">>, RtChk>>

HashOf(x, seed) == (PosIn(NameUniverse, x) * (seed + 1)) % (Len(NameUniverse) + 1)

RECURSIVE list(_, _)
\* list(S) for a set S of str
list(S, seed) ==
    IF S = {} THEN <<>>
    ELSE LET first == CHOOSE x \in S : \A y \in S \ {x} :
                 \/ HashOf(x, seed) < HashOf(y, seed)
                 \/ /\ HashOf(x, seed) = HashOf(y, seed)
                    /\ PosIn(NameUniverse, x) < PosIn(NameUniverse, y)
         IN  <<first>> \o list(S \ {first}, seed)

\* {k: list(v) for k, v in self.dependencies_graph.items()}
serializable_graph(g, seed) == [k \in DOMAIN g |-> list(g[k], seed)]

-----------------------------------------------------------------------------
(* The state machine: one run of main, then possibly another one *)

\* DEFAULT_CONFIG["IGNORE_PATTERNS"] = ["*.pyc", "__pycache__/*", ".*"]
DefaultIgnore ==
    <<<<"*", ".", "p", "y", "c">>,
      <<"_", "_", "p", "y", "c", "a", "c", "h", "e", "_", "_", "/", "*">>,
      <<".", "*">>>>

\* IGNORE_PATTERNS after loading: the default, or a user's list
Configs == {DefaultIgnore, <<<<"x">>, <<"t">>>>}

Faults == {"none", "missing", "cache_mkdir", "read2", "out_mkdir"}

\* faults whose effect does not depend on the script
BlindFaults == {"missing", "cache_mkdir", "out_mkdir"}

\* the hash seeds a process can start with
Seeds == {0, 1}

NewStats == [total_modules |-> 0, processed_modules |-> 0,
             failed_modules |-> 0, errors |-> <<>>]

EmptyDisk == [units |-> EmptyMap, docs |-> EmptyMap, deps |-> <<>>]

\* The input: a script of up to MaxNodes declarations, nested in every
\* possible way, at most one of them with a body other than `pass`; a run
\* whose fault or configuration makes the script's shape irrelevant takes
\* a script of one declaration.
Init ==
    /\ fault \in Faults
    /\ config \in Configs
    /\ hashseed \in IF fault = "read2" THEN {0} ELSE Seeds
    /\ \E broken \in BOOLEAN :
       \E n \in IF broken \/ fault \in BlindFaults \/ config = DefaultIgnore
                THEN {1} ELSE 1..MaxNodes :
       \E d \in [1..n -> Decls], p \in Shapes(n), at \in 1..n,
          f \in Features :
           file = [tree |-> MkTree(n, d, p, at, f), broken |-> broken]
    /\ pc = "main"
    /\ exit_code = -1
    /\ raised = ""
    /\ tree = <<>>
    /\ modules = EmptyMap
    /\ dependencies_graph = EmptyMap
    /\ stats = NewStats
    /\ disk = EmptyDisk
    /\ run = 1
    /\ prev_disk = EmptyDisk

\* except clauses that log the exception and fall through to `return 0`
Return1_Swallowed(exc) ==
    /\ pc' = "exit"
    /\ exit_code' = 0
    /\ raised' = exc

\* main's except clauses: every exception class ends in `return 1`
Return1(exc) ==
    /\ pc' = "exit"
    /\ exit_code' = 1
    /\ raised' = exc

\* main, 61-63: the source file must exist
CheckSource ==
    /\ pc = "main"
    /\ IF fault = "missing"
       THEN Return1("FileNotFoundError")
       ELSE pc' = "init" /\ UNCHANGED <<exit_code, raised>>
    /\ UNCHANGED <<fault, file, config, hashseed, tree, modules,
                   dependencies_graph, stats, disk, run, prev_disk>>

\* Seppy.__init__: cache_dir.mkdir is not guarded
Construct ==
    /\ pc = "init"
    /\ IF fault = "cache_mkdir"
       THEN Return1("OSError")
       ELSE pc' = "idle" /\ UNCHANGED <<exit_code, raised>>
    /\ modules' = EmptyMap
    /\ dependencies_graph' = EmptyMap
    /\ stats' = NewStats
    /\ UNCHANGED <<fault, file, config, hashseed, tree, disk, run, prev_disk>>

\* a parse_script that takes the tree of the lines that do parse
ReadAndParse_Lenient ==
    /\ pc = "idle"
    /\ tree' = file.tree
    /\ pc' = "parsed"
    /\ UNCHANGED <<fault, file, config, hashseed, exit_code, raised, modules,
                   dependencies_graph, stats, disk, run, prev_disk>>

\* parse_script, 103-106: read the file, ast.parse
ReadAndParse ==
    /\ pc = "idle"
    /\ IF ParsesOK(FileText(file))
       THEN /\ tree' = file.tree
            /\ pc' = "parsed"
            /\ UNCHANGED <<exit_code, raised>>
       ELSE /\ Return1("ParseError")
            /\ UNCHANGED tree
    /\ UNCHANGED <<fault, file, config, hashseed, modules, dependencies_graph,
                   stats, disk, run, prev_disk>>

\* parse_script, 107: self._analyze_dependencies(tree)
AnalyzeDependencies ==
    /\ pc = "parsed"
    /\ dependencies_graph' = _analyze_dependencies(tree, 1, dependencies_graph)
    /\ pc' = "indexed"
    /\ UNCHANGED <<fault, file, config, hashseed, exit_code, raised, tree,
                   modules, stats, disk, run, prev_disk>>

\* the text _split_into_modules reads for slicing ("" when the read fails)
SecondRead == IF fault = "read2" THEN <<>> ELSE FileText(file)

\* parse_script, 119-133: split, store, count; any exception becomes a
\* ParseError and leaves self.modules as it was
SplitIntoModules ==
    /\ pc = "indexed"
    /\ LET res == _split_into_modules(SecondRead, tree, config)
       IN  IF res.raised
           THEN /\ Return1("ParseError")
                /\ UNCHANGED <<modules, stats>>
           ELSE /\ modules' = res.mods
                /\ stats' = [stats EXCEPT
                                !.total_modules = Cardinality(DOMAIN res.mods)]
                /\ pc' = "complete"
                /\ UNCHANGED <<exit_code, raised>>
    /\ UNCHANGED <<fault, file, config, hashseed, tree, dependencies_graph,
                   disk, run, prev_disk>>

\* what save_modules writes: every unit's code, every unit's document (a
\* document whose generation raised is logged and skipped), the graph
Artifacts ==
    [units |-> [n \in DOMAIN modules |-> modules[n].code],
     docs |-> [n \in {m \in DOMAIN modules :
                         ~create_module_docs(m, modules[m].code).raised} |->
                  create_module_docs(n, modules[n].code)],
     deps |-> <<serializable_graph(dependencies_graph, hashseed)>>]

\* open(path, 'w') + write: the file takes the new content
Overwrite(old, new) ==
    [n \in DOMAIN old \cup DOMAIN new |->
        IF n \in DOMAIN new THEN new[n] ELSE old[n]]

\* a save that stops at the first write that fails
Written_AbortOnFailure(old, all, bad) ==
    IF bad.units /= {} \/ bad.docs /= {} \/ bad.deps THEN old
    ELSE [units |-> Overwrite(old.units, all.units),
          docs |-> Overwrite(old.docs, all.docs),
          deps |-> all.deps]

\* what is on disk, `old` having been there, when the writes in `bad` failed
Written(old, all, bad) ==
    [units |-> Overwrite(old.units,
                   [n \in DOMAIN all.units \ bad.units |-> all.units[n]]),
     docs |-> Overwrite(old.docs,
                  [n \in DOMAIN all.docs \ bad.docs |-> all.docs[n]]),
     deps |-> IF bad.deps THEN old.deps ELSE all.deps]

\* the writes that fail during one save_modules: none, or any single one
BadWrites ==
    {[units |-> {}, docs |-> {}, deps |-> FALSE],
     [units |-> {}, docs |-> {}, deps |-> TRUE]}
    \cup {[units |-> {n}, docs |-> {}, deps |-> FALSE] : n \in DOMAIN modules}
    \cup {[units |-> {}, docs |-> {n}, deps |-> FALSE] : n \in DOMAIN modules}

\* a save_modules that empties the unit mapping once the files are written
SaveModules_Clearing ==
    /\ pc = "complete"
    /\ IF fault = "out_mkdir"
       THEN /\ Return1("OSError")
            /\ UNCHANGED disk
       ELSE /\ LET all == Artifacts
                IN  \E bad \in BadWrites : disk' = Written(disk, all, bad)
            /\ pc' = "exit"
            /\ exit_code' = 0
            /\ UNCHANGED raised
    /\ modules' = EmptyMap
    /\ UNCHANGED <<fault, file, config, hashseed, tree, dependencies_graph,
                   stats, run, prev_disk>>

\* save_modules followed by main's `return 0`; the two mkdir calls are not
\* guarded, every write is
SaveModules ==
    /\ pc = "complete"
    /\ IF fault = "out_mkdir"
       THEN /\ Return1("OSError")
            /\ UNCHANGED disk
       ELSE /\ LET all == Artifacts
                IN  \E bad \in BadWrites : disk' = Written(disk, all, bad)
            /\ pc' = "exit"
            /\ exit_code' = 0
            /\ UNCHANGED raised
    /\ UNCHANGED <<fault, file, config, hashseed, tree, modules,
                   dependencies_graph, stats, run, prev_disk>>

\* the command is invoked again on the same file with the same configuration
Restart ==
    /\ pc = "exit"
    /\ run < MaxRuns
    /\ run' = run + 1
    /\ prev_disk' = disk
    /\ hashseed' \in Seeds
    /\ pc' = "main"
    /\ exit_code' = -1
    /\ raised' = ""
    /\ tree' = <<>>
    /\ modules' = EmptyMap
    /\ dependencies_graph' = EmptyMap
    /\ stats' = NewStats
    /\ UNCHANGED <<fault, file, config, disk>>

\* the contents the source file is changed to between two calls of
\* parse_script: one declaration with the body `pass`
NewContents ==
    {[tree |-> MkTree(1, [i \in {1} |-> d], [i \in {1} |-> 0], 1,
                      [body |-> [stmt |-> "pass", arg |-> None],
                       deco |-> None, params |-> <<>>]),
      broken |-> FALSE] : d \in Decls}

\* parse_script has returned, the content of the file changes, and
\* parse_script is called again on the same Seppy object: self.modules,
\* self.dependencies_graph and self.stats are those the first call left
Reparse ==
    /\ pc = "complete"
    /\ run < MaxRuns
    /\ run' = run + 1
    /\ file' \in NewContents \ {file}
    /\ pc' = "idle"
    /\ tree' = <<>>
    /\ UNCHANGED <<fault, config, hashseed, exit_code, raised, modules,
                   dependencies_graph, stats, disk, prev_disk>>

Next ==
    \/ CheckSource
    \/ Construct
    \/ ReadAndParse
    \/ AnalyzeDependencies
    \/ SplitIntoModules
    \/ SaveModules

Spec == Init /\ [][Next]_vars

NextTwice == Next \/ Restart

SpecTwice == Init /\ [][NextTwice]_vars

NextReparse == Next \/ Reparse

SpecReparse == Init /\ [][NextReparse]_vars

-----------------------------------------------------------------------------
(* Properties *)

\* parse_script has run to its end on a script that parses: it returned, or
\* the split raised
ParseFinished == tree /= <<>> /\ pc \in {"complete", "exit"}

\* parse_script has returned: self.modules is the mapping of this run
ParseReturned == ParseFinished /\ raised /= "ParseError"

\* _analyze_dependencies has run
Indexed == tree /= <<>> /\ pc \in {"indexed", "complete", "exit"}

\* the lowercased name of declaration i starts with no configured prefix
Qualifies(i) ==
    ~\E k \in 1..Len(config) : StartsWith(Lower(tree[i].name), config[k])

\* the unit made of declaration i alone
UnitOf(i) ==
    ModuleInfo(tree, i,
               create_complex_module(FileText(file), tree, i, i).text)

\* declaration i is present in the unit mapping
HasUnit(i) ==
    /\ Lower(tree[i].name) \in DOMAIN modules
    /\ modules[Lower(tree[i].name)] = UnitOf(i)

\* extraction or synthesis raises for declaration i
ProcessingRaises(i) ==
    \/ AnalyzeRaises(tree, i)
    \/ create_complex_module(SecondRead, tree, i, i).raised

SameUnitName(i, j) == Lower(tree[i].name) = Lower(tree[j].name)

\* C1: for every input script that parses, the text of every unit in the
\* unit mapping is itself accepted by the parser.
C1_RoundTrip == \A n \in DOMAIN modules : ParsesOK(modules[n].code)

\* C2: once parse_script has returned, every top-level function or type
\* definition whose lowercased name starts with no configured ignore prefix,
\* and whose lowercased name no other such top-level definition shares, is
\* in the unit mapping, under its lowercased name.
C2_Completeness ==
    ParseReturned =>
        \A i \in TopLevel(tree) :
            (/\ Qualifies(i)
             /\ \A j \in TopLevel(tree) \ {i} :
                    Qualifies(j) => ~SameUnitName(i, j))
            => HasUnit(i)

\* C3: only top-level definitions become units: a function or type
\* definition nested in another function or type body has no unit of its own.
C3_TopLevelOnly ==
    ParseReturned =>
        \A i \in 1..Len(tree) : tree[i].parent /= 0 => ~HasUnit(i)

\* C4: in the unit mapping parse_script returns, a declaration's lowercased
\* name is absent if and only if it starts with one of the configured ignore
\* prefixes; the prefix test is made on the lowercased name (with the prefix
\* "t", the declaration Ta is excluded and the declaration a is not).
C4_Filtering ==
    ParseReturned =>
        \A i \in 1..Len(tree) :
            Lower(tree[i].name) \notin DOMAIN modules
            <=> \E k \in 1..Len(config) :
                    StartsWith(Lower(tree[i].name), config[k])

C4_Witness ==
    /\ ParseReturned
    /\ \E i, j \in 1..Len(tree) :
        /\ tree[i].name = <<"T", "a">>
        /\ ~Qualifies(i)
        /\ Lower(tree[i].name) \notin DOMAIN modules
        /\ Qualifies(j)
        /\ HasUnit(j)

Edge(x, y) ==
    x \in DOMAIN dependencies_graph /\ y \in dependencies_graph[x]

\* the names declaration k refers to: the callees of the calls in its body
\* and the names of the declarations in its body
Mentions(k) ==
    Calls(tree, k)
    \cup {tree[j].name :
             j \in {h \in 1..Len(tree) : h /= k /\ InSubtree(tree, k, h)}}

\* top-level functions a = i and b = j: a's body calls b, and a body of the
\* name b refers nowhere to the name a
CallsOneWay(i, j) ==
    /\ tree[i].kind \in {"FunctionDef", "AsyncFunctionDef"}
    /\ tree[j].kind \in {"FunctionDef", "AsyncFunctionDef"}
    /\ tree[i].name /= tree[j].name
    /\ tree[j].name \in Calls(tree, i)
    /\ \A k \in 1..Len(tree) :
           tree[k].name = tree[j].name => tree[i].name \notin Mentions(k)

C6_FailureIsolation ==
    ParseFinished =>
        LET qualifying == {i \in 1..Len(tree) : Qualifies(i)}
            failing == {i \in qualifying : ProcessingRaises(i)}
        IN  (Cardinality(qualifying) > 1 /\ Cardinality(failing) = 1)
            => /\ raised /= "ParseError"
               /\ \A i \in qualifying \ failing :
                      Lower(tree[i].name) \in DOMAIN modules
               /\ stats.failed_modules = 1
               /\ Len(stats.errors) = 1

\* C7: a second run on the same input with the same configuration leaves
\* every artifact of the first run (unit file, document, dependencies file)
\* identical, the order of every list serialized from a set included.
C7_Idempotence ==
    (run = 2 /\ pc = "exit" /\ exit_code = 0)
    => /\ \A n \in DOMAIN prev_disk.units :
              disk.units[n] = prev_disk.units[n]
       /\ \A n \in DOMAIN prev_disk.docs : disk.docs[n] = prev_disk.docs[n]
       /\ prev_disk.deps /= <<>> => disk.deps = prev_disk.deps

\* the order of the claim: the type definitions, then the sync functions,
\* then the async functions, each group in the order of the walk
KindRank(kind) ==
    CASE kind = "ClassDef" -> 1
      [] kind = "FunctionDef" -> 2
      [] kind = "AsyncFunctionDef" -> 3

ProcessedAfter(i, j) ==
    \/ KindRank(tree[i].kind) > KindRank(tree[j].kind)
    \/ KindRank(tree[i].kind) = KindRank(tree[j].kind) /\ i > j

\* qualifying declarations share the unit name of i, and i is processed last
LastOfCollision(i) ==
    /\ Qualifies(i)
    /\ \E j \in 1..Len(tree) : j /= i /\ Qualifies(j) /\ SameUnitName(i, j)
    /\ \A j \in 1..Len(tree) :
           (j /= i /\ Qualifies(j) /\ SameUnitName(i, j))
           => ProcessedAfter(i, j)

\* C8: when two qualifying declarations lowercase to the same identifier,
\* the collision makes parse_script raise no error (it raises only when the
\* processing of some declaration raises), and the mapping it returns holds
\* under that identifier exactly one unit, the unit of the declaration
\* processed last: type definitions are processed before sync functions,
\* which are processed before async functions.
C8_LastWriteWins ==
    ParseFinished =>
        \A i \in 1..Len(tree) :
            LastOfCollision(i)
            => /\ raised = "ParseError"
                  => \E k \in 1..Len(tree) : Qualifies(k) /\ ProcessingRaises(k)
               /\ raised /= "ParseError" => HasUnit(i)

C8_Witness ==
    /\ ParseReturned
    /\ \E i, j \in 1..Len(tree) :
        /\ LastOfCollision(i)
        /\ SameUnitName(i, j)
        /\ tree[i].kind = "FunctionDef"
        /\ tree[j].kind = "ClassDef"
        /\ i < j
        /\ HasUnit(i)
        /\ UnitOf(j) /= UnitOf(i)

\* the script was handed to the parser: main reached parse_script
HandedToParser == fault \notin {"missing", "cache_mkdir"}

\* a state that only a script the parser accepts may lead to: the pipeline
\* is past parsing, a unit is in the mapping, a file is written, or main
\* ended otherwise than by returning 1 on a ParseError
PastParsing ==
    \/ pc \in {"parsed", "indexed", "complete"}
    \/ modules /= EmptyMap
    \/ disk /= EmptyDisk
    \/ /\ pc = "exit"
       /\ HandedToParser
       /\ ~(raised = "ParseError" /\ exit_code = 1)

\* C9: when the input script does not parse, parse_script raises ParseError
\* (and main returns 1), the unit mapping stays empty, main never gets to
\* save_modules, and no unit file, document or dependencies file is written.
C9_ParseFailureFatal == PastParsing => ParsesOK(FileText(file))

C9_Witness ==
    /\ ~ParsesOK(FileText(file))
    /\ pc = "exit"
    /\ raised = "ParseError"
    /\ exit_code = 1
    /\ modules = EmptyMap
    /\ disk = EmptyDisk

\* C10: main returns 0 exactly when the source file exists and construction,
\* parse_script and save_modules all return without raising (main caught no
\* exception); it returns 1 when the file is not found, when the core raises
\* a ScriptSplitterError and on any other exception; no exception leaves
\* main, which ends with one of the two codes.
C10_ExitCodes ==
    /\ (pc = "exit") <=> (exit_code \in {0, 1})
    /\ pc /= "exit" => exit_code = -1 /\ raised = ""
    /\ pc = "exit"
       => /\ exit_code = 0 <=> raised = ""
          /\ exit_code = 1
             <=> raised \in {"FileNotFoundError", "ParseError", "OSError"}
          /\ fault = "missing" => raised = "FileNotFoundError"
          /\ fault = "cache_mkdir" => raised = "OSError"
          /\ raised = ""
             => /\ fault \notin {"missing", "cache_mkdir", "out_mkdir"}
                /\ tree = file.tree

C10_Witness ==
    /\ pc = "exit"
    /\ exit_code = 0
    /\ raised = ""
    /\ modules /= EmptyMap
    /\ disk.deps /= <<>>

\* the artifacts of this run that are not on disk after save_modules
MissingUnits == DOMAIN modules \ DOMAIN disk.units

MissingDocs == DOMAIN modules \ DOMAIN disk.docs

C12_DocsNeverRaise ==
    pc = "complete"
    => \A n \in DOMAIN modules :
           LET doc == create_module_docs(n, modules[n].code)
           IN  /\ ~doc.raised
               /\ doc.title = n
               /\ ~ParsesOK(modules[n].code) => doc.error /\ doc.pointer

C12_Witness ==
    /\ pc = "exit"
    /\ \E n \in DOMAIN disk.docs :
        /\ ~ParsesOK(modules[n].code)
        /\ disk.docs[n].title = n
        /\ disk.docs[n].error
        /\ disk.docs[n].pointer

\* C13: a failure of a caching operation is never fatal: when the cache
\* directory cannot be created at construction, the run is not aborted by
\* that failure (main does not end on the exception of the mkdir, and its
\* exit code is the one of a run without the failure: 0 for a script that
\* parses and splits).
C13_CacheFailureNotFatal ==
    (fault = "cache_mkdir" /\ pc = "exit")
    => /\ raised /= "OSError"
       /\ ParsesOK(FileText(file)) => exit_code = 0 \/ raised = "ParseError"

\* the lines of `block` stand in `text`, one after the other
ContainsBlock(text, block) ==
    \E k \in 0..(Len(text) - Len(block)) :
        \A h \in 1..Len(block) : text[k + h] = block[h]

\* C14: for a type definition that holds a nested type definition, when the
\* original source text is not available to the synthesizer (the second read
\* of the file failed), create_complex_module returns a text in which the
\* nested definition, with its own header and members, stands inside the
\* outer body one indentation level deeper, and the nested block parses on
\* its own.
C14_NestedReconstruction ==
    (fault = "read2" /\ tree /= <<>>)
    => \A i, j \in 1..Len(tree) :
           (/\ tree[i].kind = "ClassDef"
            /\ tree[j].kind = "ClassDef"
            /\ tree[j].parent = i)
           => LET made == create_complex_module(SecondRead, tree, i, i)
                  nested == Render(tree, <<j>>, 0)
              IN  /\ ~made.raised
                  /\ ContainsBlock(made.text, IndentText(nested))
                  /\ ParsesOK(nested)

\* the place of a position in the pipeline: Idle, Parsed, Indexed,
\* Partitioning (the step from "indexed"), Complete, then main's return
Rank(p) ==
    CASE p = "main" -> 0
      [] p = "init" -> 1
      [] p = "idle" -> 2
      [] p = "parsed" -> 3
      [] p = "indexed" -> 4
      [] p = "complete" -> 5
      [] p = "exit" -> 6

\* C15: within one run the pipeline only moves forward through Idle,
\* Parsed, Indexed, Partitioning, Complete; the dependency index is finished
\* before the first declaration is partitioned, every unit is synthesized
\* before the first file is written, and a failure of one unit does not take
\* the pipeline anywhere else: partitioning ends in Complete.
C15_PipelineOrder ==
    [][/\ Rank(pc') >= Rank(pc)
       /\ dependencies_graph' /= dependencies_graph => pc = "parsed"
       /\ modules' /= modules => pc = "indexed"
       /\ disk' /= disk => pc = "complete" /\ modules' = modules
       /\ pc = "indexed" => pc' = "complete"]_vars

\* the name of declaration i is the name of no other declaration
UniqueName(i) ==
    \A j \in 1..Len(tree) : tree[j].name = tree[i].name => j = i

\* C16: after indexing, every declaration that has an enclosing declaration
\* has an edge from its own name to the name of its immediate lexical
\* parent, and a declaration without an enclosing declaration has no
\* nesting edge (the edges from its name are those of the references in its
\* body).
C16_NestingEdge ==
    Indexed =>
        \A i \in 1..Len(tree) :
            /\ tree[i].parent /= 0
               => Edge(tree[i].name, tree[tree[i].parent].name)
            /\ (tree[i].parent = 0 /\ UniqueName(i))
               => \A y \in DeclNames \cup CallNames :
                      Edge(tree[i].name, y) => y \in Calls(tree, i)

\* the bases of the attribute reads x.y inside declaration i (nested
\* declarations included, as ast.walk(node) includes them)
AttrReads(t, i) ==
    {t[k].body.arg : k \in {j \in 1..Len(t) : /\ InSubtree(t, i, j)
                                              /\ t[j].body.stmt = "attr"}}

\* C17: after indexing, for every call and every attribute access inside a
\* declaration's body (an attribute read x.y that is not the callee of a
\* call included) the graph has an edge from the declaration's name to the
\* called name, respectively to the attribute's base name.
C17_ReferenceEdges ==
    Indexed =>
        \A i \in 1..Len(tree) :
            \A y \in Calls(tree, i) \cup AttrReads(tree, i) :
                Edge(tree[i].name, y)

\* C18: after indexing, the graph has an edge from a declaration's name to
\* that same name only if the body of a declaration of that name contains a
\* call to, or an attribute access on, its own name; in particular a
\* top-level declaration that never references itself has no self-edge.
C18_SelfEdges ==
    Indexed =>
        \A x \in DeclNames :
            Edge(x, x) => \E i \in 1..Len(tree) :
                              /\ tree[i].name = x
                              /\ x \in Calls(tree, i) \cup AttrReads(tree, i)

\* C19: in the text create_complex_module returns for a declaration, every
\* auxiliary fact (here: a recorded plain assignment) is a single statement
\* line that comes after the text of the primary declaration.
C19_SynthesisOrder ==
    ParseReturned =>
        \A i \in 1..Len(tree) :
            HasUnit(i) =>
                LET code == modules[Lower(tree[i].name)].code
                    seg == get_source_segment(FileText(file), tree, i)
                    facts == StructAssignments(tree, i)
                IN  \A k \in 1..Len(facts) :
                        \E q \in 1..Len(code), p \in 1..Len(code) :
                            /\ q + Len(seg) - 1 <= Len(code)
                            /\ SubSeq(code, q, q + Len(seg) - 1) = seg
                            /\ p >= q + Len(seg)
                            /\ code[p] = Line(0, <<facts[k].target, Kw("="),
                                                   facts[k].value>>)

\* C20: in the unit of a declaration, every decorator recorded for it is an
\* "@" line ahead of the declaration's header (the source segment starts at
\* the header, so it holds none of them as a decorator line), also when the
\* decorator's name occurs as a substring somewhere in the segment.
C20_DecoratorsKept ==
    ParseReturned =>
        \A i \in 1..Len(tree) :
            HasUnit(i) =>
                LET code == modules[Lower(tree[i].name)].code
                    decorators == StructDecorators(tree, i, i)
                IN  \A k \in 1..Len(decorators) :
                        \E q \in 1..Len(code), p \in 1..Len(code) :
                            /\ q < p
                            /\ code[q] = Line(0, <<Kw("@"), decorators[k]>>)
                            /\ code[p] = Line(0, HeaderToks(tree[i]))

\* C21: when the second read of the source file fails (the source is taken
\* as empty), parse_script does not raise and the unit mapping still has a
\* unit for every qualifying declaration, whatever its kind.
C21_StructuralFallback ==
    (fault = "read2" /\ tree /= <<>> /\ pc = "exit")
    => /\ raised = ""
       /\ \A i \in 1..Len(tree) :
              Qualifies(i) => Lower(tree[i].name) \in DOMAIN modules

\* C22: create_complex_module returns text and never raises, for every
\* declaration of a parsed script and whatever source text the partitioner
\* got from its read of the file.
C22_SynthesizerTotal ==
    Indexed =>
        \A i \in 1..Len(tree) :
            ~create_complex_module(SecondRead, tree, i, i).raised

\* the lines the synthesizer emits for the with blocks recorded for
\* declaration i: the end of the unit's text
EmittedBlocks(i) ==
    LET code == modules[Lower(tree[i].name)].code
        n == Len(WithLines(StructWithBlocks(tree, i)))
    IN  SubSeq(code, Len(code) - n + 1, Len(code))

\* C23: in every compound statement the synthesizer emits (here: the with
\* blocks, one of them holding a with block in its body), the line under a
\* header is exactly one indentation level deeper than the header, at every
\* depth of nesting.
C23_Indentation ==
    ParseReturned =>
        \A i \in 1..Len(tree) :
            HasUnit(i) =>
                LET emitted == EmittedBlocks(i)
                IN  \A p \in 1..Len(emitted) :
                        IsHeader(emitted[p].toks)
                        => /\ p < Len(emitted)
                           /\ emitted[p + 1].ind
                                  = emitted[p].ind + IndentWidth

\* C24: the fact table of a declaration records each construct of the
\* declaration's own body exactly once (here: one entry per with block of
\* its body) and nothing that lies inside a nested declaration.
C24_NoHoisting ==
    Indexed =>
        \A i \in 1..Len(tree) :
            StructWithBlocks(tree, i)
                = WithEntries(tree[i].body.arg, WithDepth(tree[i].body))

\* a parameter as the signature has it: "name" or "name=default"
ParamText(p) ==
    IF p.default = None THEN p.name ELSE p.name \o <<"=">> \o p.default

\* C25: in the fact table of every function each default value is attached
\* to the parameter that has it in the signature, also when the name of one
\* parameter is a prefix of the name of another, and a parameter without
\* default gets none.
C25_DefaultsReassociated ==
    Indexed =>
        \A i \in 1..Len(tree) :
            tree[i].kind /= "ClassDef"
            => FuncArgs(tree[i].params)
                   = [k \in 1..Len(tree[i].params) |->
                         ParamText(tree[i].params[k])]

\* C26: the file is read once, before indexing and partitioning: the text
\* the partitioner slices is the text the parser was given, so no outcome of
\* a later read of the file (here: its failure) can reach the slicing.
C26_SingleRead == tree /= <<>> => SecondRead = FileText(file)

\* C27: save_modules changes neither the unit mapping nor the dependency
\* graph, whether its writes succeed or fail.
C27_SaveReadOnly ==
    [][pc = "complete"
       => /\ modules' = modules
          /\ dependencies_graph' = dependencies_graph]_vars

C27_Witness ==
    /\ pc = "exit"
    /\ exit_code = 0
    /\ modules /= EmptyMap
    /\ dependencies_graph /= EmptyMap
    /\ disk.units /= EmptyMap
    /\ disk.deps = <<>>

\* C28: when parse_script is called a second time on the same object after
\* the content of the file has changed and returns, the dependency graph
\* holds exactly the edges of the current content and the unit mapping
\* exactly the units of the current content.
C28_FreshRun ==
    (run = 2 /\ ParseReturned)
    => /\ dependencies_graph = _analyze_dependencies(tree, 1, EmptyMap)
       /\ modules = _split_into_modules(SecondRead, tree, config).mods

\* an import keyword directly followed by an import keyword
KeywordDoubled(toks) ==
    \E k \in 1..(Len(toks) - 1) :
        /\ toks[k] \in {Kw("import"), Kw("from")}
        /\ toks[k + 1] \in {Kw("import"), Kw("from")}

\* C29: the unit of a declaration whose subtree holds an import statement
\* has that import as a statement of its own ahead of the declaration, with
\* the same module, and no line of the unit has a doubled `import` or
\* `from` keyword.
C29_ImportRendering ==
    ParseReturned =>
        \A i \in 1..Len(tree) :
            HasUnit(i) =>
                LET code == modules[Lower(tree[i].name)].code
                IN  /\ \A imp \in StructImports(tree, i) :
                           \E p \in 1..Len(code) : code[p] = Line(0, imp)
                    /\ \A p \in 1..Len(code) : ~KeywordDoubled(code[p].toks)

\* the number of lines of a text that have the given tokens
Occurrences(text, toks) ==
    Cardinality({p \in 1..Len(text) : text[p].toks = toks})

\* C30: the unit of a top-level type definition holds the definition once:
\* its header occurs in the unit as often as in the definition's own source
\* text and no more, also when the type holds a nested type definition.
C30_SingleOccurrence ==
    ParseReturned =>
        \A i \in 1..Len(tree) :
            (tree[i].kind = "ClassDef" /\ tree[i].parent = 0 /\ HasUnit(i))
            => Occurrences(modules[Lower(tree[i].name)].code,
                           HeaderToks(tree[i]))
                   = Occurrences(get_source_segment(FileText(file), tree, i),
                                 HeaderToks(tree[i]))

====
